---- MODULE Spec2Model ----
(***************************************************************************)
(* A model of train.py of HouseX: the data pipeline (get_tensors,          *)
(* MelSpectrogramDataset, DataLoader), the epoch runner (one_epoch), the   *)
(* training loop (train, evaluate) and the top-level driver (__main__).    *)
(*                                                                         *)
(* Every function of the script is a little state machine with its own     *)
(* program counter (gpc, epc, tpc, dpc).  A caller starts a callee by      *)
(* moving the callee's counter to "enter" and resumes when the counter is  *)
(* "returned"; a callee that raises leaves its counter at "raised" and the *)
(* caller, which has no try/except anywhere in the script, re-raises.      *)
(*                                                                         *)
(* Python's None is the empty tuple <<>>, a present value v is <<v>>.      *)
(* File names are sequences of tokens, the name being their concatenation. *)
(* The network itself is the library's: its weights are a version number   *)
(* (the number of optimizer steps applied to the initial weights) and its  *)
(* predictions a fixed function of the weights and the batch, the script   *)
(* being seeded (SEED, lines 28-31).                                       *)
(***************************************************************************)
EXTENDS Integers, Sequences, FiniteSets, TLC

\* ------------------------------------------------------------------ bounds
\* Largest --epochs / epochs argument explored.
MaxEpochs == 2
\* Largest number of entries of a split directory explored by get_tensors.
MaxFiles == 3
\* Largest dataset size explored by one_epoch and train.
MaxSamples == 3
\* Largest batch size explored.
MaxBatch == 2

\* ------------------------------------------------------------- vocabulary
None == <<>>
Some(v) == <<v>>

Splits == {"train", "val", "test"}

song_types == <<"future house", "bass house", "progressive house", "melodic house">>

\* Directory entries the model lists: well-formed spectrogram names, a name
\* with two separators, a '.jpg' that is not a suffix, a non-jpg, an unknown
\* genre, the older '-' naming scheme and a name that starts with '_'.
FileNames ==
    { <<"bass house", "_", "1", ".jpg">>,
      <<"future house", "_", "2", ".jpg">>,
      <<"melodic house", "_", "1", "_", "2", ".jpg">>,
      <<"progressive house", "_", "1", ".jpg", ".bak">>,
      <<"progressive house", "_", "1", ".png">>,
      <<"techno", "_", "1", ".jpg">>,
      <<"bass house", "-", "1", ".jpg">>,
      <<"_", "1", ".jpg">> }

RECURSIVE SeqsUpTo(_, _)
\* All duplicate-free sequences of at most n elements of S (what os.listdir
\* can return for a directory holding some of the names of S).
SeqsUpTo(S, n) ==
    IF n = 0 THEN { <<>> }
    ELSE LET shorter == SeqsUpTo(S, n - 1)
         IN  shorter \cup
             { Append(s, x) : s \in { t \in shorter : Len(t) = n - 1 }, x \in S }

Range(s) == { s[i] : i \in 1..Len(s) }

NoDup(s) == Cardinality(Range(s)) = Len(s)

Listings(n) == { s \in SeqsUpTo(FileNames, n) : NoDup(s) }

\* --------------------------------------------------------- string helpers
\* 'tok in name'
Contains(name, tok) == \E i \in 1..Len(name) : name[i] = tok

RECURSIVE Split(_, _)
\* str.split(sep): the parts of name between the occurrences of sep.
Split(name, sep) ==
    IF ~Contains(name, sep) THEN << name >>
    ELSE LET i == CHOOSE k \in 1..Len(name) :
                     name[k] = sep /\ \A j \in 1..(k - 1) : name[j] # sep
         IN  << SubSeq(name, 1, i - 1) >> \o Split(SubSeq(name, i + 1, Len(name)), sep)

Last(s) == s[Len(s)]

\* list.index with the position counted from 1.
IndexOneBased(list, x) ==
    IF \E i \in 1..Len(list) : << list[i] >> = x
    THEN Some(CHOOSE i \in 1..Len(list) :
                 << list[i] >> = x /\ \A j \in 1..(i - 1) : << list[j] >> # x)
    ELSE None

\* list.index(x): the 0-based position of the first x; <<>> where Python
\* raises ValueError.
Index(list, x) ==
    IF \E i \in 1..Len(list) : << list[i] >> = x
    THEN Some((CHOOSE i \in 1..Len(list) :
                  << list[i] >> = x /\ \A j \in 1..(i - 1) : << list[j] >> # x) - 1)
    ELSE None

RECURSIVE SelectSeqJpg(_)
\* [ele for ele in os.listdir(spec_dir) if '.jpg' in ele]
SelectSeqJpg(listing) ==
    IF listing = <<>> THEN <<>>
    ELSE (IF Contains(Head(listing), ".jpg") THEN << Head(listing) >> ELSE <<>>)
         \o SelectSeqJpg(Tail(listing))

\* img.split('/')[-1].split("_")[0]
SongType(img) == Split(Last(Split(img, "/")), "_")[1]

\* transform(Image.open(img_path).convert('RGB')): the tensor is known by
\* the file it was decoded from and the transform applied to it.
ImgTensor(transform, mode, img) == [file |-> img, dir |-> mode, transform |-> transform]

\* ------------------------------------------------------ loaders, network
\* DataLoader(dataset, batch_size, shuffle=True) over n samples: drop_last is
\* left at False, so the last batch holds what remains.
NumBatches(l) == (l.n + l.bs - 1) \div l.bs

\* Every batch taken to be full.
BatchLenFull(l, b) == l.bs

\* images.shape[0] of batch b (0-based) of loader l.
BatchLen(l, b) == IF l.n - b * l.bs < l.bs THEN l.n - b * l.bs ELSE l.bs

\* torch.sum(preds == labels).item() for a batch of n samples: what the
\* network with weights w gets right of batch b.
NumCorrect(w, b, n) == (w + b) % (n + 1)

\* loss.item(): the cross-entropy of the batch, here the number of samples
\* the network gets wrong.
BatchLoss(w, b, n) == n - NumCorrect(w, b, n)

RECURSIVE Sum(_)
Sum(s) == IF s = <<>> THEN 0 ELSE Head(s) + Sum(Tail(s))

\* np.mean(losses) as a fraction; of an empty list it is nan (n = 0).
Mean(s) == [sum |-> Sum(s), n |-> Len(s)]

\* The initial weights a network can be handed over with: freshly
\* initialised (0) or the IMAGENET1K_V1 weights (1).
InitialWeights == { 0, 1 }

\* Mode strings one_epoch is called with: the two the script uses and two
\* it does not.
Modes == { "train", "test", "val", "eval" }

VARIABLES
    dirs,            \* split |-> os.listdir of path/split
    gpc, g_args,     \* get_tensors: position, (transform, mode)
    img_list, gi, image_tensors, label_tensors, g_ret,
    model,           \* None or the nn.Module: layers, training flag, weights, device
    loaders,         \* split |-> None or the DataLoader over that split
    epc, e_args,     \* one_epoch: position, (loader, mode, epoch_id)
    opt, runmode, losses, correct_preds, length, bi, ret,
    ops,             \* what the current one_epoch call did, in order
    invocations,     \* every one_epoch call so far, in order
    tpc, t_args,     \* train: position, (epochs, device, writer, eval_first)
    epoch, ei, cur_log, held, scalars, t_ret,
    dpc, args,       \* __main__: position, the parsed command line
    backbone, transforms, sets, files, ckpt, cm,
    err              \* the exception in flight ("none" when there is none)

dvars == << dpc, args, backbone, transforms, sets, files, ckpt, cm >>

gvars == << gpc, g_args, img_list, gi, image_tensors, label_tensors, g_ret >>

evars == << epc, e_args, opt, runmode, losses, correct_preds, length, bi, ret, ops, invocations >>

tvars == << tpc, t_args, epoch, ei, cur_log, held, scalars, t_ret >>

\* ------------------------------------------------------------ get_tensors
\* Lines 41-45: the empty result lists and the filtered listing.
GetTensorsEnter ==
    /\ gpc = "enter"
    /\ image_tensors' = <<>>
    /\ label_tensors' = <<>>
    /\ img_list' = SelectSeqJpg(dirs[g_args.mode])
    /\ gi' = 1
    /\ gpc' = "loop"
    /\ UNCHANGED << dvars, dirs, g_args, g_ret, err, model, loaders, evars, tvars >>

\* The loop body with an unknown song type skipped instead of raised.
GetTensorsFileSkipsUnknown ==
    /\ gpc = "loop"
    /\ gi <= Len(img_list)
    /\ LET img      == img_list[gi]
           label    == Index(song_types, SongType(img))
       IN  IF label = None
           THEN UNCHANGED << image_tensors, label_tensors >>
           ELSE /\ image_tensors' = Append(image_tensors,
                                           ImgTensor(g_args.transform, g_args.mode, img))
                /\ label_tensors' = Append(label_tensors, label[1])
    /\ gi' = gi + 1
    /\ UNCHANGED << dvars, dirs, gpc, g_args, img_list, g_ret, model, loaders, evars, tvars, err >>

\* Lines 46-53: one iteration of the loop over img_list.
GetTensorsFile ==
    /\ gpc = "loop"
    /\ gi <= Len(img_list)
    /\ LET img      == img_list[gi]
           song_type == SongType(img)
           label    == Index(song_types, song_type)
       IN  /\ image_tensors' = Append(image_tensors, ImgTensor(g_args.transform, g_args.mode, img))
           /\ IF label = None
              THEN /\ gpc' = "raised"
                   /\ err' = "ValueError"
                   /\ UNCHANGED << label_tensors, gi >>
              ELSE /\ label_tensors' = Append(label_tensors, label[1])
                   /\ gi' = gi + 1
                   /\ UNCHANGED << gpc, err >>
    /\ UNCHANGED << dvars, dirs, g_args, img_list, g_ret, model, loaders, evars, tvars >>

\* Line 55.
GetTensorsReturn ==
    /\ gpc = "loop"
    /\ gi > Len(img_list)
    /\ g_ret' = Some(<< image_tensors, label_tensors >>)
    /\ gpc' = "returned"
    /\ UNCHANGED << dvars, dirs, g_args, img_list, gi, image_tensors, label_tensors, err,
                    model, loaders, evars, tvars >>

GetTensorsNext == GetTensorsEnter \/ GetTensorsFile \/ GetTensorsReturn

\* -------------------------------------------------------------- one_epoch
\* Lines 94-101 and 73-77: the dispatch on mode (the optimizer and
\* model.train() for 'train'; model.eval() and run('test') for anything
\* else), then run's locals and the progress bar's description, whose
\* epoch_id + 1 raises TypeError for the default epoch_id=None.
OneEpochEnter ==
    /\ epc = "enter"
    /\ invocations' = Append(invocations, e_args)
    /\ IF e_args.mode = "train"
       THEN /\ opt' = TRUE
            /\ model' = Some([model[1] EXCEPT !.training = TRUE])
            /\ runmode' = "train"
       ELSE /\ opt' = FALSE
            /\ model' = Some([model[1] EXCEPT !.training = FALSE])
            /\ runmode' = "test"
    /\ losses' = <<>>
    /\ correct_preds' = 0
    /\ length' = 0
    /\ bi' = 0
    /\ ops' = <<>>
    /\ ret' = None
    /\ IF e_args.epoch_id = None
       THEN epc' = "raised" /\ err' = "TypeError"
       ELSE epc' = "loop" /\ err' = err
    /\ UNCHANGED << dvars, dirs, gvars, loaders, e_args, tvars >>

\* The batch step with the optimizer stepped whatever the mode.
OneEpochBatchStepsAlways ==
    /\ epc = "loop"
    /\ bi < NumBatches(loaders[e_args.loader][1])
    /\ LET l == loaders[e_args.loader][1]
           n == BatchLen(l, bi)
           w == model[1].weights
       IN  /\ length' = length + n
           /\ correct_preds' = correct_preds + NumCorrect(w, bi, n)
           /\ losses' = Append(losses, BatchLoss(w, bi, n))
           /\ ops' = ops \o << <<"forward", bi>>, <<"record", bi>>,
                               <<"zero_grad", bi>>, <<"backward", bi>>, <<"step", bi>> >>
           /\ model' = Some([model[1] EXCEPT !.weights = w + 1])
    /\ bi' = bi + 1
    /\ UNCHANGED << dvars, dirs, gvars, loaders, epc, e_args, opt, runmode, ret, invocations, tvars, err >>

\* Lines 78-91: one batch of the loader.
OneEpochBatch ==
    /\ epc = "loop"
    /\ bi < NumBatches(loaders[e_args.loader][1])
    /\ LET l == loaders[e_args.loader][1]
           n == BatchLen(l, bi)
           w == model[1].weights
       IN  /\ length' = length + n
           /\ correct_preds' = correct_preds + NumCorrect(w, bi, n)
           /\ losses' = Append(losses, BatchLoss(w, bi, n))
           /\ IF runmode = "train"
              THEN /\ ops' = ops \o << <<"forward", bi>>, <<"record", bi>>,
                                      <<"zero_grad", bi>>, <<"backward", bi>>, <<"step", bi>> >>
                   /\ model' = Some([model[1] EXCEPT !.weights = w + 1])
              ELSE /\ ops' = ops \o << <<"forward", bi>>, <<"record", bi>> >>
                   /\ model' = model
    /\ bi' = bi + 1
    /\ UNCHANGED << dvars, dirs, gvars, loaders, epc, e_args, opt, runmode, ret, invocations, tvars, err >>

\* Line 92: the mean loss and the accuracy; correct_preds / length raises
\* ZeroDivisionError when the loader yielded no batch.
OneEpochReturn ==
    /\ epc = "loop"
    /\ bi >= NumBatches(loaders[e_args.loader][1])
    /\ IF length = 0
       THEN epc' = "raised" /\ err' = "ZeroDivisionError" /\ ret' = ret
       ELSE /\ epc' = "returned"
            /\ err' = err
            /\ ret' = Some([loss |-> Mean(losses),
                            accuracy |-> [num |-> correct_preds, den |-> length]])
    /\ UNCHANGED << dvars, dirs, gvars, model, loaders, e_args, opt, runmode, losses,
                    correct_preds, length, bi, ops, invocations, tvars >>

OneEpochNext == OneEpochEnter \/ OneEpochBatch \/ OneEpochReturn

\* ------------------------------------------------------- train, evaluate
\* log.push of the logger module: one record per call, in call order.
Push(log, train_loss, train_acc, val_loss, val_acc, test_loss, test_acc) ==
    Append(log, [train_loss |-> train_loss, train_acc |-> train_acc,
                 val_loss |-> val_loss, val_acc |-> val_acc,
                 test_loss |-> test_loss, test_acc |-> test_acc])

\* evaluate with the loader argument ignored in favour of the val loader.
EvaluateValOnly(loader, epoch_id) ==
    /\ epc' = "enter"
    /\ e_args' = [loader |-> "val", mode |-> "test", epoch_id |-> Some(epoch_id)]

\* Lines 135-137: evaluate(model, device, loader, comment, epoch_id) moves
\* the model to the device and runs one_epoch in mode 'test'.
Evaluate(loader, epoch_id) ==
    /\ epc' = "enter"
    /\ e_args' = [loader |-> loader, mode |-> "test", epoch_id |-> Some(epoch_id)]

\* Line 113: one_epoch(model, train_loader, 'train', device, epoch).
TrainCall(epoch_id) ==
    /\ epc' = "enter"
    /\ e_args' = [loader |-> "train", mode |-> "train", epoch_id |-> Some(epoch_id)]

\* writer.add_scalar, lines 123-128.
AddScalars(sc, e, h, test) ==
    sc \o << <<"loss/train", h.train_loss, e>>, <<"accuracy/train", h.train_acc, e>>,
             <<"loss/val", h.val_loss, e>>, <<"accuracy/val", h.val_acc, e>>,
             <<"loss/test", test.loss, e>>, <<"accuracy/test", test.accuracy, e>> >>

e_locals == << opt, runmode, losses, correct_preds, length, bi, ret, ops, invocations >>

\* train with the evaluation before the first epoch left out.
EvalFirstNever == FALSE

\* Whether train evaluates before the first epoch (line 107).
EvalFirst == t_args.eval_first

\* Whether train records the epoch (line 122).
Records == t_args.writer

\* Lines 105-111: the move to the device, then either the first evaluation
\* on the val loader or, with eval_first false, the fresh log.
TrainEnter ==
    /\ tpc = "enter"
    /\ model' = Some([model[1] EXCEPT !.device = t_args.device])
    /\ epoch' = -1
    /\ ei' = 0
    /\ held' = None
    /\ t_ret' = None
    /\ IF EvalFirst
       THEN /\ Evaluate("val", -1)
            /\ tpc' = "first_val"
            /\ UNCHANGED cur_log
       ELSE /\ cur_log' = <<>>
            /\ tpc' = "loop"
            /\ UNCHANGED << epc, e_args >>
    /\ UNCHANGED << dvars, dirs, gvars, loaders, e_locals, t_args, scalars, err >>

\* Lines 141-143 and 109: the val evaluation returned; evaluate the test
\* loader.
TrainFirstVal ==
    /\ tpc = "first_val"
    /\ epc = "returned"
    /\ Evaluate("test", epoch)
    /\ tpc' = "first_test"
    /\ UNCHANGED << dvars, dirs, gvars, model, loaders, e_locals, t_args, epoch, ei, cur_log,
                    held, scalars, t_ret, err >>

\* Line 111: cur_log = log().
TrainFirstTest ==
    /\ tpc = "first_test"
    /\ epc = "returned"
    /\ epc' = "idle"
    /\ cur_log' = <<>>
    /\ tpc' = "loop"
    /\ UNCHANGED << dvars, dirs, gvars, model, loaders, e_args, e_locals, t_args, epoch, ei,
                    held, scalars, t_ret, err >>

\* Lines 112-113 and 131-132: the next epoch of range(epochs), or the move
\* back to the cpu and the return of the log.
TrainLoop ==
    /\ tpc = "loop"
    /\ IF ei < t_args.epochs
       THEN /\ epoch' = ei
            /\ ei' = ei + 1
            /\ TrainCall(ei)
            /\ tpc' = "train"
            /\ UNCHANGED << model, t_ret >>
       ELSE /\ model' = Some([model[1] EXCEPT !.device = "cpu"])
            /\ t_ret' = Some(cur_log)
            /\ tpc' = "returned"
            /\ UNCHANGED << epoch, ei, epc, e_args >>
    /\ UNCHANGED << dvars, dirs, gvars, loaders, e_locals, t_args, cur_log, held, scalars, err >>

\* Lines 114-120: the training epoch returned; keep its loss and accuracy
\* and evaluate the val loader.
TrainAfterTrain ==
    /\ tpc = "train"
    /\ epc = "returned"
    /\ held' = Some([train_loss |-> ret[1].loss, train_acc |-> ret[1].accuracy])
    /\ Evaluate("val", epoch)
    /\ tpc' = "val"
    /\ UNCHANGED << dvars, dirs, gvars, model, loaders, e_locals, t_args, epoch, ei, cur_log,
                    scalars, t_ret, err >>

\* Lines 120-121: the val evaluation returned; keep its result and evaluate
\* the test loader.
TrainAfterVal ==
    /\ tpc = "val"
    /\ epc = "returned"
    /\ held' = Some([train_loss |-> held[1].train_loss, train_acc |-> held[1].train_acc,
                     val_loss |-> ret[1].loss, val_acc |-> ret[1].accuracy])
    /\ Evaluate("test", epoch)
    /\ tpc' = "test"
    /\ UNCHANGED << dvars, dirs, gvars, model, loaders, e_locals, t_args, epoch, ei, cur_log,
                    scalars, t_ret, err >>

\* Lines 121-130: the test evaluation returned; with a writer, the six
\* scalars and the push to the log.
TrainAfterTest ==
    /\ tpc = "test"
    /\ epc = "returned"
    /\ epc' = "idle"
    /\ IF Records
       THEN /\ scalars' = AddScalars(scalars, epoch, held[1], ret[1])
            /\ cur_log' = Push(cur_log, held[1].train_loss, held[1].train_acc,
                               held[1].val_loss, held[1].val_acc,
                               ret[1].loss, ret[1].accuracy)
       ELSE UNCHANGED << scalars, cur_log >>
    /\ held' = None
    /\ tpc' = "loop"
    /\ UNCHANGED << dvars, dirs, gvars, model, loaders, e_args, e_locals, t_args, epoch, ei,
                    t_ret, err >>

\* An exception of one_epoch passes through evaluate and train uncaught.
TrainRaise ==
    /\ tpc \in { "first_val", "first_test", "train", "val", "test" }
    /\ epc = "raised"
    /\ epc' = "idle"
    /\ tpc' = "raised"
    /\ UNCHANGED << dvars, dirs, gvars, model, loaders, e_args, e_locals, t_args, epoch, ei,
                    cur_log, held, scalars, t_ret, err >>

TrainNext ==
    \/ TrainEnter \/ TrainFirstVal \/ TrainFirstTest \/ TrainLoop
    \/ TrainAfterTrain \/ TrainAfterVal \/ TrainAfterTest \/ TrainRaise

\* --------------------------------------------------------------- __main__
\* type(backbone).__name__ for --id 0..11 (lines 169-225).
BackboneNames ==
    << "MobileNetV3", "ResNet", "VGG", "DenseNet", "ShuffleNetV2", "ViT",
       "VGG", "VGG", "ResNet", "ResNet", "SqueezeNet", "GoogLeNet" >>

\* The ids the if/elif chain of lines 169-225 has a branch for.
SupportedIds == 0..(Len(BackboneNames) - 1)

\* The chain without its final else: an unsupported id leaves backbone = None
\* and the script goes on (type(None).__name__ is 'NoneType').
SelectBackboneNoRaise(id, pretrained) ==
    IF id \in 0..(Len(BackboneNames) - 1)
    THEN Some([name |-> BackboneNames[id + 1],
               weights |-> IF pretrained /\ id # 5 THEN 1 ELSE 0])
    ELSE Some([name |-> "NoneType", weights |-> 0])

\* The backbone the chain builds: every torchvision branch reloads the
\* IMAGENET1K_V1 weights under --pretrained; the ViT branch (id 5) has no
\* pretrained variant.
SelectBackbone(id, pretrained) ==
    IF id \in SupportedIds
    THEN Some([name |-> BackboneNames[id + 1],
               weights |-> IF pretrained /\ id # 5 THEN 1 ELSE 0])
    ELSE None

\* Lines 255-264: the transform of the training set.
TrainTransform(version) == IF version = "legacy" THEN "legacy" ELSE "augmented"

\* Every split built with the training transform.
TransformOfTrain(split) == transforms.train

\* Lines 268-270: the transform each split's dataset is built with.
TransformOf(split) == IF split = "train" THEN transforms.train ELSE transforms.legacy

\* Line 165.
DEVICE == IF args.id >= 0 THEN "cuda:0" ELSE "cpu"

\* Lines 147-165: the command line is parsed and LR, EPOCHS, BATCH_SIZE and
\* DEVICE are set from it.  torch.cuda.get_device_name() of line 162 needs a
\* CUDA device; the model covers the hosts that have one.
DriverParse ==
    /\ dpc = "start"
    /\ dpc' = "backbone"
    /\ UNCHANGED << args, backbone, transforms, sets, files, ckpt, cm,
                    dirs, gvars, model, loaders, evars, tvars, err >>

\* Lines 168-229: the backbone for args.id, or KeyError.
DriverBackbone ==
    /\ dpc = "backbone"
    /\ LET b == SelectBackbone(args.id, args.pretrained)
       IN  IF b = None
           THEN dpc' = "raised" /\ err' = "KeyError" /\ UNCHANGED backbone
           ELSE dpc' = "head" /\ backbone' = b /\ UNCHANGED err
    /\ UNCHANGED << args, transforms, sets, files, ckpt, cm,
                    dirs, gvars, model, loaders, evars, tvars >>

\* Lines 232-246: the classification head on top of the backbone; a fresh
\* nn.Sequential is in training mode and on the cpu.
DriverHead ==
    /\ dpc = "head"
    /\ model' = Some([layers |-> IF args.network_version = "legacy"
                                  THEN << backbone[1].name, "Dropout", "Linear" >>
                                  ELSE << backbone[1].name, "ReLU", "BatchNorm1d",
                                          "Dropout", "Linear" >>,
                      training |-> TRUE,
                      weights |-> backbone[1].weights,
                      device |-> "cpu"])
    /\ dpc' = "transforms"
    /\ UNCHANGED << args, backbone, transforms, sets, files, ckpt, cm,
                    dirs, gvars, loaders, evars, tvars, err >>

\* Lines 249-264.
DriverTransforms ==
    /\ dpc = "transforms"
    /\ transforms' = [legacy |-> "legacy", train |-> TrainTransform(args.transforms_version)]
    /\ dpc' = "train_set"
    /\ UNCHANGED << args, backbone, sets, files, ckpt, cm,
                    dirs, gvars, model, loaders, evars, tvars, err >>

\* The split whose dataset lines 268-270 build at position p.
SplitAt(p) == IF p = "train_set" THEN "train" ELSE IF p = "val_set" THEN "val" ELSE "test"

\* Lines 268-270, the call: get_tensors(transform, args.data_dir, mode=split).
DriverGetTensors ==
    /\ dpc \in { "train_set", "val_set", "test_set" }
    /\ gpc = "idle"
    /\ g_args' = [transform |-> TransformOf(SplitAt(dpc)), mode |-> SplitAt(dpc)]
    /\ gpc' = "enter"
    /\ UNCHANGED << dvars, dirs, img_list, gi, image_tensors, label_tensors, g_ret,
                    model, loaders, evars, tvars, err >>

\* Lines 268-270, the result: MelSpectrogramDataset(images, labels).
DriverDataset ==
    /\ dpc \in { "train_set", "val_set", "test_set" }
    /\ gpc = "returned"
    /\ sets' = [sets EXCEPT ![SplitAt(dpc)] =
                   Some([images |-> g_ret[1][1], labels |-> g_ret[1][2]])]
    /\ gpc' = "idle"
    /\ dpc' = IF dpc = "train_set" THEN "val_set"
              ELSE IF dpc = "val_set" THEN "test_set" ELSE "loaders"
    /\ UNCHANGED << args, backbone, transforms, files, ckpt, cm,
                    dirs, g_args, img_list, gi, image_tensors, label_tensors, g_ret,
                    model, loaders, evars, tvars, err >>

\* len(dataset), line 63-64.
DatasetLen(d) == Len(d.images)

\* Lines 272-277: the three loaders.  RandomSampler (shuffle=True) rejects an
\* empty dataset with ValueError in the torch releases that check
\* num_samples > 0 and accepts it in the others: both outcomes are kept.
DriverLoaders ==
    /\ dpc = "loaders"
    /\ \/ /\ loaders' = [s \in Splits |->
                            Some([n |-> DatasetLen(sets[s][1]), bs |-> args.batch_size])]
          /\ dpc' = "logdir"
          /\ UNCHANGED err
       \/ /\ \E s \in Splits : DatasetLen(sets[s][1]) = 0
          /\ dpc' = "raised"
          /\ err' = "ValueError"
          /\ UNCHANGED loaders
    /\ UNCHANGED << args, backbone, transforms, sets, files, ckpt, cm,
                    dirs, gvars, model, evars, tvars >>

\* Lines 280-284: the fresh log directory (its name holds time.time(), so
\* it is new and empty); under --do_train the SummaryWriter and the call of
\* train with the writer and the default eval_first=True.
DriverLogdir ==
    /\ dpc = "logdir"
    /\ IF args.do_train
       THEN /\ files' = files \cup { "logdir", "events" }
            /\ t_args' = [epochs |-> args.epochs, device |-> DEVICE,
                          writer |-> TRUE, eval_first |-> TRUE]
            /\ tpc' = "enter"
            /\ dpc' = "training"
       ELSE /\ files' = files \cup { "logdir" }
            /\ dpc' = "load_val"
            /\ UNCHANGED << t_args, tpc >>
    /\ UNCHANGED << args, backbone, transforms, sets, ckpt, cm,
                    dirs, gvars, model, loaders, evars,
                    epoch, ei, cur_log, held, scalars, t_ret, err >>

\* Lines 285-287: the training log and the checkpoint are saved; torch.save
\* pickles the module as it is, its training flag included.
DriverSave ==
    /\ dpc = "training"
    /\ tpc = "returned"
    /\ files' = files \cup { "training_log.json", "checkpoint" }
    /\ ckpt' = model
    /\ tpc' = "idle"
    /\ dpc' = "load_val"
    /\ UNCHANGED << args, backbone, transforms, sets, cm,
                    dirs, gvars, model, loaders, evars,
                    t_args, epoch, ei, cur_log, held, scalars, t_ret, err >>

\* Lines 290-293: torch.load of the checkpoint of this run's log directory,
\* FileNotFoundError when no checkpoint was saved there.
DriverLoad ==
    /\ dpc \in { "load_val", "load_test" }
    /\ IF "checkpoint" \in files
       THEN /\ model' = Some([ckpt[1] EXCEPT !.device = DEVICE])
            /\ dpc' = IF dpc = "load_val" THEN "predict_val" ELSE "predict_test"
            /\ UNCHANGED err
       ELSE /\ dpc' = "raised"
            /\ err' = "FileNotFoundError"
            /\ UNCHANGED model
    /\ UNCHANGED << args, backbone, transforms, sets, files, ckpt, cm,
                    dirs, gvars, loaders, evars, tvars >>

RECURSIVE Predicted(_, _, _)
\* Lines 294-300: the number of samples of loader l, from batch b on, that
\* the network with weights w labels correctly.
Predicted(l, w, b) ==
    IF b >= NumBatches(l) THEN 0
    ELSE NumCorrect(w, b, BatchLen(l, b)) + Predicted(l, w, b + 1)

\* Lines 294-312: the predictions over the split's loader, the confusion
\* matrix and its image under ./logs/, the classification report.
DriverPredict ==
    /\ dpc \in { "predict_val", "predict_test" }
    /\ LET mode == IF dpc = "predict_val" THEN "val" ELSE "test"
           l    == loaders[mode][1]
       IN  /\ cm' = [cm EXCEPT ![mode] =
                        Some([support |-> l.n,
                              hits |-> Predicted(l, model[1].weights, 0),
                              training |-> model[1].training])]
           /\ files' = files \cup { IF mode = "val" THEN "cm_val" ELSE "cm_test" }
    /\ model' = Some([model[1] EXCEPT !.device = "cpu"])
    /\ dpc' = IF dpc = "predict_val" THEN "load_test" ELSE "done"
    /\ UNCHANGED << args, backbone, transforms, sets, ckpt,
                    dirs, gvars, loaders, evars, tvars, err >>

\* No try/except anywhere: an exception of get_tensors or train ends the
\* script.
DriverRaise ==
    /\ \/ dpc \in { "train_set", "val_set", "test_set" } /\ gpc = "raised"
       \/ dpc = "training" /\ tpc = "raised"
    /\ dpc' = "raised"
    /\ UNCHANGED << args, backbone, transforms, sets, files, ckpt, cm,
                    dirs, gvars, model, loaders, evars, tvars, err >>

DriverNext ==
    \/ DriverParse \/ DriverBackbone \/ DriverHead \/ DriverTransforms
    \/ DriverGetTensors \/ DriverDataset \/ DriverLoaders \/ DriverLogdir
    \/ DriverSave \/ DriverLoad \/ DriverPredict \/ DriverRaise

\* ---------------------------------------------------------- specifications
vars == << dvars, dirs, gvars, model, loaders, evars, tvars, err >>

\* Line 35 and the default of --batch_size (line 156).
BATCH_SIZE == 4

\* The values --id takes in the model: the twelve supported ids, the
\* default -1 and -2 below them, 12 (which line 232 mentions but no branch
\* builds) and 13 above them.
Ids == (0 - 2)..(Len(BackboneNames) + 1)

\* What the three split directories hold when the driver runs: nothing, one
\* spectrogram beside a non-jpg file, three spectrograms, or a spectrogram
\* and a file of an unknown genre.
DriverListings ==
    { <<>>,
      << <<"bass house", "_", "1", ".jpg">>, <<"progressive house", "_", "1", ".png">> >>,
      << <<"future house", "_", "2", ".jpg">>, <<"bass house", "_", "1", ".jpg">>,
         <<"melodic house", "_", "1", "_", "2", ".jpg">> >>,
      << <<"bass house", "_", "1", ".jpg">>, <<"techno", "_", "1", ".jpg">> >> }

\* A network handed to train or one_epoch by a caller.
Networks ==
    { [layers |-> << "backbone", "Dropout", "Linear" >>, training |-> t,
       weights |-> w, device |-> "cpu"] : t \in BOOLEAN, w \in InitialWeights }

IdleTensors ==
    /\ gpc = "idle"
    /\ g_args = [transform |-> "legacy", mode |-> "train"]
    /\ img_list = <<>>
    /\ gi = 1
    /\ image_tensors = <<>>
    /\ label_tensors = <<>>
    /\ g_ret = None

EpochLocals ==
    /\ opt = FALSE
    /\ runmode = "test"
    /\ losses = <<>>
    /\ correct_preds = 0
    /\ length = 0
    /\ bi = 0
    /\ ret = None
    /\ ops = <<>>
    /\ invocations = <<>>

IdleEpoch ==
    /\ epc = "idle"
    /\ e_args = [loader |-> "train", mode |-> "test", epoch_id |-> None]
    /\ EpochLocals

TrainLocals ==
    /\ epoch = -1
    /\ ei = 0
    /\ cur_log = <<>>
    /\ held = None
    /\ scalars = <<>>
    /\ t_ret = None

IdleTrain ==
    /\ tpc = "idle"
    /\ t_args = [epochs |-> 0, device |-> "cpu", writer |-> FALSE, eval_first |-> FALSE]
    /\ TrainLocals

DriverLocals ==
    /\ backbone = None
    /\ transforms = None
    /\ sets = [s \in Splits |-> None]
    /\ files = {}
    /\ ckpt = None
    /\ cm = [s \in { "val", "test" } |-> None]

IdleDriver ==
    /\ dpc = "idle"
    /\ args = [id |-> 0 - 1, pretrained |-> FALSE, do_train |-> FALSE,
               network_version |-> "legacy", transforms_version |-> "legacy",
               epochs |-> 0, batch_size |-> BATCH_SIZE]
    /\ DriverLocals

\* The script is run: any command line, any content of the three split
\* directories.
Init ==
    /\ dpc = "start"
    /\ args \in [id : Ids, pretrained : BOOLEAN, do_train : BOOLEAN,
                 network_version : { "legacy", "experimental" },
                 transforms_version : { "legacy", "experimental", "v2" },
                 epochs : 0..MaxEpochs, batch_size : { 1, BATCH_SIZE }]
    /\ DriverLocals
    /\ dirs \in [Splits -> DriverListings]
    /\ IdleTensors
    /\ model = None
    /\ loaders = [s \in Splits |-> None]
    /\ IdleEpoch
    /\ IdleTrain
    /\ err = "none"

Next == DriverNext \/ GetTensorsNext \/ TrainNext \/ OneEpochNext

Spec == Init /\ [][Next]_vars

\* get_tensors is called on one split directory with any listing.
InitTensors ==
    /\ IdleDriver
    /\ gpc = "enter"
    /\ g_args \in [transform : { "legacy", "augmented" }, mode : Splits]
    /\ \E listing \in Listings(MaxFiles) :
          dirs = [s \in Splits |-> IF s = g_args.mode THEN listing ELSE <<>>]
    /\ img_list = <<>>
    /\ gi = 1
    /\ image_tensors = <<>>
    /\ label_tensors = <<>>
    /\ g_ret = None
    /\ model = None
    /\ loaders = [s \in Splits |-> None]
    /\ IdleEpoch
    /\ IdleTrain
    /\ err = "none"

SpecTensors == InitTensors /\ [][GetTensorsNext]_vars

\* one_epoch is called with any mode string, any epoch_id (None included)
\* and a loader over 0..MaxSamples samples.
InitEpoch ==
    /\ IdleDriver
    /\ dirs = [s \in Splits |-> <<>>]
    /\ IdleTensors
    /\ model \in { Some(m) : m \in Networks }
    /\ \E n \in 0..MaxSamples, bs \in 1..MaxBatch :
          loaders = [s \in Splits |-> Some([n |-> n, bs |-> bs])]
    /\ epc = "enter"
    /\ e_args \in [loader : { "val" }, mode : Modes,
                   epoch_id : { None, Some(0 - 1), Some(0) }]
    /\ EpochLocals
    /\ IdleTrain
    /\ err = "none"

SpecEpoch == InitEpoch /\ [][OneEpochNext]_vars

\* train is called with any epoch count, with and without a writer, with
\* and without eval_first, over loaders of 0..MaxSamples samples.
InitTrain ==
    /\ IdleDriver
    /\ dirs = [s \in Splits |-> <<>>]
    /\ IdleTensors
    /\ model \in { Some(m) : m \in Networks }
    /\ \E bs \in 1..MaxBatch :
          loaders \in [Splits -> { Some([n |-> n, bs |-> bs]) : n \in 0..MaxSamples }]
    /\ IdleEpoch
    /\ tpc = "enter"
    /\ t_args \in [epochs : 0..MaxEpochs, device : { "cuda" },
                   writer : BOOLEAN, eval_first : BOOLEAN]
    /\ TrainLocals
    /\ err = "none"

NextTrain == TrainNext \/ OneEpochNext

SpecTrain == InitTrain /\ [][NextTrain]_vars

\* ------------------------------------------------------------------ claims
\* The split directories that hold a '.jpg' entry whose text before the
\* first '_' is no song type.
TextBefore(name, sep) ==
    IF \E k \in 1..Len(name) : name[k] = sep
    THEN SubSeq(name, 1, (CHOOSE k \in 1..Len(name) :
                             name[k] = sep /\ \A j \in 1..(k - 1) : name[j] # sep) - 1)
    ELSE name

IsJpg(name) == ".jpg" \in Range(name)

KnownType(name) == \E t \in 1..Len(song_types) : TextBefore(name, "_") = << song_types[t] >>

JpgEntries(listing) == SelectSeq(listing, IsJpg)

HasBadJpg(listing) == \E i \in 1..Len(listing) : IsJpg(listing[i]) /\ ~KnownType(listing[i])

IsPrefix(s, t) == Len(s) <= Len(t) /\ SubSeq(t, 1, Len(s)) = s

\* C1: with a backbone id outside 0..11 the driver never gets past backbone
\* selection: it is before it, or it has raised KeyError there; no head,
\* dataset, loader, log directory, checkpoint or image exists, no function
\* of the script was called, and once it has raised nothing more happens.
C1_UnsupportedIdRaises ==
    (dpc # "idle" /\ args.id \notin 0..11) =>
        /\ dpc \in { "start", "backbone", "raised" }
        /\ dpc = "raised" => err = "KeyError" /\ ~ENABLED Next
        /\ backbone = None
        /\ model = None
        /\ \A s \in Splits : sets[s] = None /\ loaders[s] = None
        /\ files = {}
        /\ ckpt = None
        /\ gpc = "idle" /\ tpc = "idle" /\ epc = "idle"
        /\ invocations = <<>>

C1_Witness == dpc = "raised" /\ args.id = 12 /\ err = "KeyError"

Call(loader, mode, i) == [loader |-> loader, mode |-> mode, epoch_id |-> Some(i)]

RECURSIVE Schedule(_)
Schedule(n) ==
    IF n = 0 THEN <<>>
    ELSE Schedule(n - 1) \o << Call("train", "train", n - 1), Call("val", "test", n - 1),
                               Call("test", "test", n - 1) >>

ExpectedCalls(n, eval_first) ==
    (IF eval_first THEN << Call("val", "test", 0 - 1), Call("test", "test", 0 - 1) >> ELSE <<>>)
    \o Schedule(n)

\* C2: the one_epoch calls train has made are at every moment a prefix of
\* the order [val, test,] (train i, val i, test i) for i = 0..N-1, and when
\* train returns they are the whole of it: N calls in mode 'train', each
\* followed by one evaluation on val and one on test, 3N+2 calls with
\* eval_first.
C2_EpochSchedule ==
    tpc # "idle" =>
        /\ IsPrefix(invocations, ExpectedCalls(t_args.epochs, t_args.eval_first))
        /\ tpc = "returned" =>
              /\ invocations = ExpectedCalls(t_args.epochs, t_args.eval_first)
              /\ Len(SelectSeq(invocations, LAMBDA c : c.mode = "train")) = t_args.epochs
              /\ t_args.eval_first => Len(invocations) = 3 * t_args.epochs + 2

C2_Witness ==
    /\ tpc = "returned"
    /\ t_args.epochs = 2
    /\ t_args.eval_first
    /\ Len(invocations) = 8

\* C3: whenever the evaluation phase loads the checkpoint of a split, the
\* checkpoint file exists.
C3_CheckpointExistsWhenLoaded ==
    dpc \in { "load_val", "load_test" } => "checkpoint" \in files

\* C4: every dataset is built with the transform the claim names: the val
\* and test sets with the legacy transform whatever --transforms_version
\* is, the train set with the legacy transform for "legacy" and the
\* augmented one otherwise.
C4_EvalSetsLegacy ==
    \A s \in Splits :
        (dpc # "idle" /\ sets[s] # None) =>
            \A k \in 1..Len(sets[s][1].images) :
                sets[s][1].images[k].transform =
                    IF s = "train" /\ args.transforms_version # "legacy"
                    THEN "augmented" ELSE "legacy"

C4_Witness ==
    /\ dpc = "logdir"
    /\ args.transforms_version = "experimental"
    /\ \A s \in Splits : sets[s] # None /\ Len(sets[s][1].images) > 0

\* C5: the log train returns holds one record per training epoch.
C5_LogHoldsEveryEpoch ==
    tpc = "returned" => Len(t_ret[1]) = t_args.epochs

StepOps(b) ==
    << <<"forward", b>>, <<"record", b>>, <<"zero_grad", b>>, <<"backward", b>>, <<"step", b>> >>

RECURSIVE TrainOps(_)
TrainOps(k) == IF k = 0 THEN <<>> ELSE TrainOps(k - 1) \o StepOps(k - 1)

OptimizerOps(s) == SelectSeq(s, LAMBDA o : o[1] \in { "zero_grad", "backward", "step" })

NumSteps(s) == Len(SelectSeq(s, LAMBDA o : o[1] = "step"))

\* C6: once one_epoch has dispatched on its mode, in mode 'train' the
\* optimizer exists and the call has done, for each batch processed,
\* forward, record, zero_grad, backward, step in that order; in any other
\* mode there is no optimizer and no zero_grad, backward or step.
C6_ModeDecidesSteps ==
    epc \in { "loop", "returned", "raised" } =>
        IF e_args.mode = "train"
        THEN opt /\ ops = TrainOps(bi)
        ELSE ~opt /\ OptimizerOps(ops) = <<>>

\* C6: every step of one_epoch changes the weights by the number of
\* optimizer steps it takes, which is none in a mode other than 'train'.
C6_WeightsFollowSteps ==
    /\ model'[1].weights = model[1].weights + (NumSteps(ops') - NumSteps(ops))
    /\ e_args.mode # "train" => model'[1].weights = model[1].weights

\* C6: one_epoch changes the parameters only in mode 'train', by one
\* optimizer step (zero_grad, backward, step, after the batch's loss and
\* correct count were recorded) per batch; in every other mode it creates no
\* optimizer, steps nothing and leaves the parameters as they were.
C6_OnlyTrainChangesParameters ==
    [](C6_ModeDecidesSteps) /\ [][C6_WeightsFollowSteps]_vars

C6_Witness ==
    /\ epc = "returned"
    /\ e_args.mode = "train"
    /\ NumSteps(ops) = 2
    /\ model[1].weights >= 2

SamplesIn(l, k) == IF k * l.bs < l.n THEN k * l.bs ELSE l.n

\* C7: after every processed batch of one_epoch 0 <= correct_preds <=
\* length, length is the number of samples of the batches processed so far,
\* and there is one loss per processed batch; when one_epoch returns, length
\* is the dataset size and the accuracy correct_preds / length is in [0, 1].
C7_CountsBounded ==
    epc \in { "loop", "returned" } =>
        LET l == loaders[e_args.loader][1]
        IN  /\ 0 <= correct_preds /\ correct_preds <= length
            /\ length = SamplesIn(l, bi)
            /\ Len(losses) = bi
            /\ epc = "returned" =>
                  /\ l.n > 0
                  /\ length = l.n
                  /\ ret[1].accuracy.den = l.n
                  /\ 0 <= ret[1].accuracy.num
                  /\ ret[1].accuracy.num <= ret[1].accuracy.den

C7_Witness ==
    /\ epc = "returned"
    /\ loaders[e_args.loader][1] = [n |-> 3, bs |-> 2]
    /\ 0 < correct_preds /\ correct_preds < length

\* C8: when get_tensors returns, both lists are as long as the directory
\* has entries with '.jpg' in their name, image k is the k-th such entry and
\* label k is the index in song_types of that entry's text before its
\* first '_', a number in 0..3.
C8_LabelsMatchFiles ==
    gpc = "returned" =>
        LET jpgs   == JpgEntries(dirs[g_args.mode])
            images == g_ret[1][1]
            labels == g_ret[1][2]
        IN  /\ Len(images) = Len(jpgs)
            /\ Len(labels) = Len(jpgs)
            /\ \A k \in 1..Len(jpgs) :
                  /\ images[k].file = jpgs[k]
                  /\ labels[k] \in 0..3
                  /\ << song_types[labels[k] + 1] >> = TextBefore(jpgs[k], "_")

C8_Witness ==
    /\ gpc = "returned"
    /\ Len(g_ret[1][2]) = 2
    /\ g_ret[1][2][1] # g_ret[1][2][2]
    /\ Len(dirs[g_args.mode]) > Len(JpgEntries(dirs[g_args.mode]))

\* C9: a split whose directory holds a '.jpg' entry of an unknown song type
\* never yields a result: get_tensors does not return for it, raises
\* ValueError at the first such entry, and the driver builds no dataset and
\* no loader from the split and runs no epoch on it.
C9_BadNameRaises ==
    \A s \in Splits :
        (dpc # "idle" /\ HasBadJpg(dirs[s])) =>
            /\ sets[s] = None
            /\ loaders[s] = None
            /\ \A k \in 1..Len(invocations) : invocations[k].loader # s
            /\ (gpc # "idle" /\ g_args.mode = s) =>
                  /\ gpc # "returned"
                  /\ gpc = "raised" =>
                        /\ err = "ValueError"
                        /\ ~KnownType(img_list[gi])
                        /\ \A j \in 1..(gi - 1) : KnownType(img_list[j])
                        /\ Len(label_tensors) = gi - 1

C9_Witness ==
    /\ dpc = "raised"
    /\ err = "ValueError"
    /\ HasBadJpg(dirs["val"])
    /\ sets["train"] # None
    /\ sets["val"] = None

\* C10: when train, called with eval_first, returns, its last one_epoch
\* call was an evaluation and the model is in evaluation mode; so is the
\* checkpoint the driver saves and the model the confusion-matrix phase
\* loads and runs.
C10_EvalModeAfterTrain ==
    /\ (tpc = "returned" /\ t_args.eval_first) =>
          /\ invocations # <<>>
          /\ Last(invocations).mode # "train"
          /\ ~model[1].training
    /\ ckpt # None => ~ckpt[1].training
    /\ dpc \in { "predict_val", "predict_test" } => ~model[1].training
    /\ \A s \in { "val", "test" } : cm[s] # None => ~cm[s][1].training

C10_Witness ==
    /\ dpc = "done"
    /\ args.epochs = 0
    /\ cm["test"] # None

====
